---- MODULE Spec2Model ----
(***************************************************************************)
(* Model of tkr_searxng: the scraper (tkr_simple_scrape.py: simple_scrape, *)
(* create_filename_from_url, main) and its serial caller (search.py:       *)
(* process_search_results).                                                *)
(*                                                                         *)
(* A parsed document is the sequence of its nodes in document order; each  *)
(* node names its parent (0 is the BeautifulSoup root).  A Python string   *)
(* that the scraper returns is the sequence of the tokens it is made of,   *)
(* the empty string being the empty sequence.  A URL is the sequence of    *)
(* its characters.                                                         *)
(***************************************************************************)
EXTENDS Integers, Sequences, FiniteSets, TLC

VARIABLES
    pc,              \* position in the function that is running
    url,             \* main: args.url
    export_html,     \* simple_scrape: export_html (main: args.html)
    img_only,        \* simple_scrape: img_only (main: args.img_only)
    resp,            \* what requests.get met
    result,          \* simple_scrape: the value returned
    parsed,          \* simple_scrape: BeautifulSoup was called
    raised,          \* simple_scrape: an exception reached the caller
    log,             \* the records logged by the call
    filename,        \* main: the filename derived from the URL
    file,            \* the file written (main, save_json)
    save_as,         \* process_search_results: a save_as was given
    return_results,  \* process_search_results: return_results
    search_results,  \* process_search_results: search_results["results"]
    fetched,         \* process_search_results: the URLs scraped so far
    idx,             \* process_search_results: results consumed by zip
    results,         \* process_search_results: the pairs built so far
    returned         \* process_search_results: the value returned

vars == <<pc, url, export_html, img_only, resp, result, parsed, raised, log,
          filename, file, save_as, return_results, search_results, fetched,
          idx, results, returned>>

\* ------------------------------------------------------------------------
\* Bounds
\* ------------------------------------------------------------------------
\* largest number of nodes of a fetched document
MaxNodes == 3
\* largest number of characters of a URL after its protocol and www. prefix
MaxUrlLen == 4
\* largest number of results the search endpoint returns
MaxResults == 3

\* ------------------------------------------------------------------------
\* Python values
\* ------------------------------------------------------------------------
\* Optional[str]: None, or a string given as the sequence of its tokens
None == [isNone |-> TRUE, value |-> <<>>]
Str(v) == [isNone |-> FALSE, value |-> v]

\* no file written yet
NoFile == [written |-> FALSE, name |-> <<>>, content |-> <<>>]

\* the function has not returned
NoReturn == [done |-> FALSE, isNone |-> TRUE, value |-> <<>>]

\* an attribute an element does not carry
Absent == "<absent>"

\* tokens that str.strip() removes
WhitespaceTokens == {" ", "\n\n"}
\* not s.strip()
IsBlank(s) == \A k \in 1..Len(s) : s[k] \in WhitespaceTokens

\* ------------------------------------------------------------------------
\* Parsed documents (what BeautifulSoup(content, 'html.parser') builds)
\* ------------------------------------------------------------------------
\* elements whose children are elements or text
ContainerTags == {"body", "p", "template", "svg"}
\* elements whose content html.parser reads as raw text (CDATA content)
RawTextTags == {"script", "style"}

ElementLabels == [tag : ContainerTags \cup RawTextTags, text : {""},
                  src : {Absent}, alt : {Absent}]
ImgLabels == { [tag |-> "img", text |-> "", src |-> "a.png", alt |-> "A"],
               [tag |-> "img", text |-> "", src |-> "b.png", alt |-> Absent],
               [tag |-> "img", text |-> "", src |-> Absent, alt |-> "no-src"] }
TextLabels == [tag : {"#text"}, text : {"x", " "}, src : {Absent}, alt : {Absent}]
Labels == ElementLabels \cup ImgLabels \cup TextLabels

MkNode(l, p) == [tag |-> l.tag, parent |-> p, text |-> l.text, src |-> l.src, alt |-> l.alt]

RECURSIVE AncOrSelf(_, _)
\* the node i and its ancestors (the root 0 excluded)
AncOrSelf(doc, i) == IF i = 0 THEN {} ELSE {i} \cup AncOrSelf(doc, doc[i].parent)

\* the nodes that may be the parent of the node appended to doc: the root, or
\* an open element (the last node or one of its ancestors) that takes children
OpenParents(doc) ==
    {0} \cup {a \in (IF doc = <<>> THEN {} ELSE AncOrSelf(doc, Len(doc))) :
                  doc[a].tag \in ContainerTags \cup RawTextTags}

\* the labels a child of p may carry: raw-text elements hold text only, and
\* the parser merges adjacent text into one text node
ChildLabels(doc, p) ==
    {l \in Labels :
        /\ (p # 0 /\ doc[p].tag \in RawTextTags) => l.tag = "#text"
        /\ l.tag = "#text" =>
              ~(doc # <<>> /\ doc[Len(doc)].tag = "#text" /\ doc[Len(doc)].parent = p)}

RECURSIVE DocsOfLen(_)
DocsOfLen(n) ==
    IF n = 0 THEN {<<>>}
    ELSE UNION { { Append(d, MkNode(l, p)) : l \in ChildLabels(d, p) } :
                 <<d, p>> \in { <<d2, p2>> \in DocsOfLen(n - 1) \X (0..(n - 1)) :
                                    p2 \in OpenParents(d2) } }

Docs == UNION { DocsOfLen(n) : n \in 0..MaxNodes }
\* the documents the error pages and the unusual statuses carry
SmallDocs == UNION { DocsOfLen(n) : n \in 0..1 }

RECURSIVE SeqAsc(_)
\* the members of a set of node indices in document order
SeqAsc(S) == IF S = {} THEN <<>>
             ELSE LET m == CHOOSE a \in S : \A b \in S : a <= b
                  IN <<m>> \o SeqAsc(S \ {m})

RECURSIVE SeqDesc(_)
SeqDesc(S) == IF S = {} THEN <<>>
              ELSE LET m == CHOOSE a \in S : \A b \in S : a >= b
                   IN <<m>> \o SeqDesc(S \ {m})

\* the subtree of node a
Subtree(doc, a) == {j \in 1..Len(doc) : a \in AncOrSelf(doc, j)}

\* ------------------------------------------------------------------------
\* The fetch (requests.get, Response.raise_for_status)
\* ------------------------------------------------------------------------
\* transport-level faults; requests raises a RequestException subclass
Faults == {"dns", "tls", "timeout", "reset"}
\* statuses that carry a document to parse when raise_for_status lets them by
PassStatuses == {200}
\* statuses outside 2xx that are no HTTP error (an unfollowed 3xx, a
\* non-standard status)
OddStatuses == {304, 999}
\* HTTP error statuses
ErrorStatuses == {404, 500}

FaultResponses == [kind : {"fault"}, fault : Faults, status : {0},
                   parseable : {TRUE}, doc : {<<>>}]
\* a response whose markup the parser rejects (ParserRejectedMarkup)
RejectedResponses == [kind : {"http"}, fault : {"none"}, status : PassStatuses,
                      parseable : {FALSE}, doc : {<<>>}]
HttpResponses ==
    [kind : {"http"}, fault : {"none"}, status : PassStatuses,
     parseable : {TRUE}, doc : Docs]
    \cup [kind : {"http"}, fault : {"none"}, status : OddStatuses \cup ErrorStatuses,
          parseable : {TRUE}, doc : SmallDocs]
Responses == FaultResponses \cup RejectedResponses \cup HttpResponses

\* mutant: only client errors raise
RaisesForStatus_ClientOnly(status) == 400 <= status /\ status < 500

\* Response.raise_for_status(): HTTPError for 4xx and 5xx, nothing otherwise
RaisesForStatus(status) == 400 <= status /\ status < 600

\* the success range of HTTP statuses
IsSuccessStatus(status) == 200 <= status /\ status < 300

\* ------------------------------------------------------------------------
\* simple_scrape
\* ------------------------------------------------------------------------
LogFetching == "INFO Fetching content from URL"
LogNoBody == "WARNING No <body> tag found in the HTML content."
LogEmpty == "WARNING Conversion to Markdown resulted in empty content."
LogErrFetch == "ERROR Error fetching the website"
LogErrUnexpected == "ERROR An unexpected error occurred"

\* mutant: style elements are left in the document
StripTags_NoStyle == {"script", "template", "svg"}

\* the elements the stripping pass looks for
StripTags == {"script", "style", "template", "svg"}

\* mutant: nothing is decomposed before the images are collected
Decompose_Nothing(doc) == [doc |-> doc, alive |-> 1..Len(doc)]

\* for tag in soup([...]): tag.decompose() -- every matching element of the
\* document goes with its whole subtree
Decompose(doc) ==
    [doc |-> doc,
     alive |-> {i \in 1..Len(doc) :
                   \A a \in AncOrSelf(doc, i) : doc[a].tag \notin StripTags}]

\* the markup of a node's start: an element's start tag, a text node's text
OpenToken(n) ==
    IF n.tag = "#text" THEN n.text
    ELSE IF n.tag = "img"
         THEN "<img" \o (IF n.alt = Absent THEN "" ELSE " alt=\"" \o n.alt \o "\"")
                     \o (IF n.src = Absent THEN "" ELSE " src=\"" \o n.src \o "\"")
                     \o "/>"
         ELSE "<" \o n.tag \o ">"

\* the end tags written after node i: those of the elements of S whose last
\* node in S is i, innermost first
CloseTokens(doc, S, i) ==
    LET ending == {a \in AncOrSelf(doc, i) \cap S :
                      /\ doc[a].tag \in ContainerTags \cup RawTextTags
                      /\ \A j \in Subtree(doc, a) \cap S : j <= i}
        order == SeqDesc(ending)
    IN [k \in 1..Len(order) |-> "</" \o doc[order[k]].tag \o ">"]

RECURSIVE SerializeFrom(_, _, _)
SerializeFrom(doc, S, i) ==
    IF i > Len(doc) THEN <<>>
    ELSE (IF i \in S THEN <<OpenToken(doc[i])>> \o CloseTokens(doc, S, i) ELSE <<>>)
         \o SerializeFrom(doc, S, i + 1)

\* str(tag) / str(soup): the markup of the nodes S, a set closed under subtrees
Serialize(doc, S) == SerializeFrom(doc, S, 1)

\* soup.find('body'): the first body element left in the document, 0 for None
FindBody(soup) ==
    LET bodies == {i \in soup.alive : soup.doc[i].tag = "body"}
    IN IF bodies = {} THEN 0 ELSE CHOOSE b \in bodies : \A c \in bodies : b <= c

\* the paragraph a node is in, 0 when in none
BlockOf(doc, i) ==
    LET ps == {a \in AncOrSelf(doc, i) : doc[a].tag = "p"}
    IN IF ps = {} THEN 0 ELSE CHOOSE a \in ps : \A b \in ps : a >= b

\* what html2text writes for a node: the text of a text node unless it is
\* whitespace or inside script/style, a reference for an image with a src
MarkdownData(doc, i) ==
    LET n == doc[i] IN
    IF n.tag = "#text"
    THEN IF n.text \in WhitespaceTokens
            \/ \E a \in AncOrSelf(doc, i) : doc[a].tag \in RawTextTags
         THEN <<>> ELSE <<n.text>>
    ELSE IF n.tag = "img" /\ n.src # Absent
         THEN <<"![" \o (IF n.alt = Absent THEN "" ELSE n.alt) \o "](" \o n.src \o ")">>
         ELSE <<>>

RECURSIVE MarkdownFrom(_, _, _, _, _)
MarkdownFrom(doc, order, k, out, blk) ==
    IF k > Len(order) THEN out
    ELSE LET i == order[k]
             data == MarkdownData(doc, i)
         IN IF data = <<>> THEN MarkdownFrom(doc, order, k + 1, out, blk)
            ELSE MarkdownFrom(doc, order, k + 1,
                     (IF out # <<>> /\ BlockOf(doc, i) # blk THEN Append(out, "\n\n") ELSE out)
                         \o data,
                     BlockOf(doc, i))

\* html_to_markdown(str(tag)): html2text over the subtree S, links kept; the
\* output always ends in a paragraph break
html_to_markdown(doc, S) == MarkdownFrom(doc, SeqAsc(S), 1, <<>>, 0) \o <<"\n\n">>

\* mutant: an img without src is listed too
ImageList_NoSrcCheck(soup) ==
    LET imgs == SeqAsc({i \in soup.alive : soup.doc[i].tag = "img"})
    IN <<"<ul>">>
       \o [k \in 1..Len(imgs) |->
             "<li><img src='" \o soup.doc[imgs[k]].src \o "' alt='"
                 \o (IF soup.doc[imgs[k]].alt = Absent THEN "" ELSE soup.doc[imgs[k]].alt)
                 \o "'></li>"]
       \o <<"</ul>">>

\* the img_only branch: soup.find_all('img'), one <li> per img with a src
ImageList(soup) ==
    LET imgs == SeqAsc({i \in soup.alive :
                           soup.doc[i].tag = "img" /\ soup.doc[i].src # Absent})
    IN <<"<ul>">>
       \o [k \in 1..Len(imgs) |->
             "<li><img src='" \o soup.doc[imgs[k]].src \o "' alt='"
                 \o (IF soup.doc[imgs[k]].alt = Absent THEN "" ELSE soup.doc[imgs[k]].alt)
                 \o "'></li>"]
       \o <<"</ul>">>

\* mutant: a document without body is rendered whole
RenderMarkdown_WholeDocument(soup) ==
    LET body == FindBody(soup)
        markdown_content ==
            html_to_markdown(soup.doc,
                IF body = 0 THEN soup.alive ELSE Subtree(soup.doc, body) \cap soup.alive)
    IN IF IsBlank(markdown_content)
       THEN [result |-> None, log |-> <<LogEmpty>>]
       ELSE [result |-> Str(markdown_content), log |-> <<>>]

\* mutant: the emptiness check is missing
RenderMarkdown_NoEmptyCheck(soup) ==
    LET body == FindBody(soup)
    IN IF body = 0 THEN [result |-> None, log |-> <<LogNoBody>>]
       ELSE [result |-> Str(html_to_markdown(soup.doc, Subtree(soup.doc, body) \cap soup.alive)),
             log |-> <<>>]

\* mutant: a document without body yields the empty string
RenderMarkdown_EmptyString(soup) ==
    LET body == FindBody(soup)
        markdown_content == html_to_markdown(soup.doc, Subtree(soup.doc, body) \cap soup.alive)
    IN IF body = 0 THEN [result |-> Str(<<>>), log |-> <<LogNoBody>>]
       ELSE IF IsBlank(markdown_content)
            THEN [result |-> None, log |-> <<LogEmpty>>]
            ELSE [result |-> Str(markdown_content), log |-> <<>>]

\* the Markdown branch: body lookup, conversion, emptiness check
RenderMarkdown(soup) ==
    LET body == FindBody(soup)
        markdown_content == html_to_markdown(soup.doc, Subtree(soup.doc, body) \cap soup.alive)
    IN IF body = 0 THEN [result |-> None, log |-> <<LogNoBody>>]
       ELSE IF IsBlank(markdown_content)
            THEN [result |-> None, log |-> <<LogEmpty>>]
            ELSE [result |-> Str(markdown_content), log |-> <<>>]

\* the try block: the exception it ends in ("none" when it returns), whether
\* the parser ran, the value returned and the records logged
TryBlock(r, eh, io) ==
    IF r.kind = "fault" \/ RaisesForStatus(r.status)
    THEN [exc |-> "RequestException", parsed |-> FALSE, result |-> None, log |-> <<>>]
    ELSE IF ~r.parseable
    THEN [exc |-> "Exception", parsed |-> TRUE, result |-> None, log |-> <<>>]
    ELSE LET soup == Decompose(r.doc) IN
         IF io THEN [exc |-> "none", parsed |-> TRUE,
                     result |-> Str(ImageList(soup)), log |-> <<>>]
         ELSE IF eh THEN [exc |-> "none", parsed |-> TRUE,
                          result |-> Str(Serialize(soup.doc, soup.alive)), log |-> <<>>]
         ELSE LET md == RenderMarkdown(soup)
              IN [exc |-> "none", parsed |-> TRUE, result |-> md.result, log |-> md.log]

\* simple_scrape(url, export_html, img_only) when the web answers url with r
simple_scrape(r, eh, io) ==
    LET t == TryBlock(r, eh, io) IN
    IF t.exc = "RequestException"
    THEN [result |-> None, parsed |-> t.parsed, raised |-> FALSE,
          log |-> <<LogFetching>> \o t.log \o <<LogErrFetch>>]
    ELSE IF t.exc = "Exception"
    THEN [result |-> None, parsed |-> t.parsed, raised |-> FALSE,
          log |-> <<LogFetching>> \o t.log \o <<LogErrUnexpected>>]
    ELSE [result |-> t.result, parsed |-> t.parsed, raised |-> FALSE,
          log |-> <<LogFetching>> \o t.log]

\* ------------------------------------------------------------------------
\* Specification of one call of simple_scrape
\* ------------------------------------------------------------------------
NoResponse == [kind |-> "none", fault |-> "none", status |-> 0,
               parseable |-> TRUE, doc |-> <<>>]

\* the variables of the command line and of the search caller, unused here
IdleCli == url = <<>> /\ filename = <<>> /\ file = NoFile
IdleSearch == /\ save_as = FALSE /\ return_results = FALSE
              /\ search_results = <<>> /\ fetched = <<>> /\ idx = 0
              /\ results = <<>> /\ returned = NoReturn

Init ==
    /\ pc = "call"
    /\ export_html \in BOOLEAN
    /\ img_only \in BOOLEAN
    /\ resp = NoResponse
    /\ result = None /\ parsed = FALSE /\ raised = FALSE /\ log = <<>>
    /\ IdleCli /\ IdleSearch

\* simple_scrape(url, export_html, img_only), the web answering with r
SimpleScrape ==
    /\ pc = "call"
    /\ \E r \in Responses :
          LET o == simple_scrape(r, export_html, img_only) IN
          /\ resp' = r
          /\ result' = o.result
          /\ parsed' = o.parsed
          /\ raised' = o.raised
          /\ log' = o.log
    /\ pc' = "done"
    /\ UNCHANGED <<url, export_html, img_only, filename, file,
                   save_as, return_results, search_results, fetched,
                   idx, results, returned>>

Next == SimpleScrape

Spec == Init /\ [][Next]_vars

\* ------------------------------------------------------------------------
\* Properties of simple_scrape (checked under Spec)
\* ------------------------------------------------------------------------
Called == pc = "done"
TransportFault == resp.kind = "fault"
\* the request came back with a status that is no HTTP error
Fetched == resp.kind = "http" /\ resp.status \notin 400..599
MarkdownMode == ~img_only /\ ~export_html
HasBody(doc) == \E i \in 1..Len(doc) : doc[i].tag = "body"
Contains(s, tok) == \E k \in 1..Len(s) : s[k] = tok
LastLog == IF log = <<>> THEN "" ELSE log[Len(log)]

\* C1 as stated: a transport fault or any status outside 2xx gives None, no
\* exception and no parsing
C1_AsStated ==
    (Called /\ (TransportFault \/ (resp.kind = "http" /\ ~IsSuccessStatus(resp.status))))
        => (result = None /\ ~raised /\ ~parsed)

\* C1 (amended): a transport fault or an HTTP error status (4xx, 5xx) makes
\* simple_scrape return None without raising and without parsing a body
C1_FetchFailureReturnsNone ==
    (Called /\ (TransportFault \/ (resp.kind = "http" /\ resp.status \in 400..599)))
        => (result = None /\ ~raised /\ ~parsed)

C1_Witness ==
    Called /\ resp.kind = "http" /\ resp.status = 500 /\ resp.doc # <<>>
           /\ result = None /\ ~parsed /\ LastLog = LogErrFetch

\* C2 as stated: no body element gives None in every mode but image-list
C2_AsStated ==
    (Called /\ Fetched /\ resp.parseable /\ ~img_only /\ ~HasBody(resp.doc))
        => (result = None /\ ~raised)

\* C2 (amended): in Markdown mode a fetched document without body element
\* gives None and no exception, whatever else the document contains
C2_NoBodyReturnsNone ==
    (Called /\ Fetched /\ resp.parseable /\ MarkdownMode /\ ~HasBody(resp.doc))
        => (result = None /\ ~raised)

C2_Witness ==
    /\ Called /\ Fetched /\ resp.parseable /\ MarkdownMode
    /\ ~HasBody(resp.doc)
    /\ \E i \in 1..Len(resp.doc) : resp.doc[i].tag = "#text" /\ resp.doc[i].text = "x"
                                   /\ resp.doc[i].parent # 0
                                   /\ resp.doc[resp.doc[i].parent].tag = "p"
    /\ result = None

\* C3 as stated: no mode but image-list returns a present value that is
\* empty or whitespace only
C3_AsStated ==
    (Called /\ ~img_only) => ~(~result.isNone /\ IsBlank(result.value))

\* C3 (amended): Markdown mode never returns a present value that is empty
\* or whitespace only
C3_NoBlankContent ==
    (Called /\ MarkdownMode) => ~(~result.isNone /\ IsBlank(result.value))

C3_Witness ==
    /\ Called /\ Fetched /\ resp.parseable /\ MarkdownMode
    /\ HasBody(resp.doc) /\ Len(resp.doc) >= 2
    /\ result = None /\ LastLog = LogEmpty

\* the text nodes inside an element of the given tags
TextInside(doc, tags) ==
    {i \in 1..Len(doc) : /\ doc[i].tag = "#text"
                         /\ \E a \in AncOrSelf(doc, i) : doc[a].tag \in tags}

\* the text nodes outside every script, style, template and svg element
TextOutside(doc) ==
    {i \in 1..Len(doc) : doc[i].tag = "#text"}
        \ TextInside(doc, {"script", "style", "template", "svg"})

ItemOf(n) == "<li><img src='" \o n.src \o "' alt='"
                 \o (IF n.alt = Absent THEN "" ELSE n.alt) \o "'></li>"

\* the img elements that carry a src
SrcImages(doc) == {i \in 1..Len(doc) : doc[i].tag = "img" /\ doc[i].src # Absent}
\* those of them outside every script, style, template and svg element
KeptSrcImages(doc) ==
    {i \in SrcImages(doc) :
        \A a \in AncOrSelf(doc, i) : doc[a].tag \notin {"script", "style", "template", "svg"}}

\* value is the list wrapper around the items of the images S, in document order
IsListOf(value, doc, S) ==
    /\ Len(value) = Cardinality(S) + 2
    /\ value[1] = "<ul>" /\ value[Len(value)] = "</ul>"
    /\ \A i \in S : value[1 + Cardinality({j \in S : j <= i})] = ItemOf(doc[i])

\* C5 as stated: after a successful fetch image-list mode returns the list
\* of all img elements of the document that carry a src
C5_AsStated ==
    (Called /\ img_only /\ Fetched /\ resp.parseable) =>
        (~result.isNone /\ IsListOf(result.value, resp.doc, SrcImages(resp.doc)))

\* C5 (amended): in image-list mode, after a successful fetch of a document
\* the parser accepts, the result is present and is the list wrapper around
\* one item (src, alt or '') per img with src that is outside the stripped
\* elements, in document order; an img without src gives no item and no such
\* img at all gives the bare wrapper
C5_ImageListItems ==
    (Called /\ img_only /\ Fetched /\ resp.parseable) =>
        (~result.isNone /\ IsListOf(result.value, resp.doc, KeptSrcImages(resp.doc)))

C5_Witness ==
    /\ Called /\ img_only /\ Fetched /\ resp.parseable
    /\ \E i, j \in 1..Len(resp.doc) :
          /\ resp.doc[i].tag = "img" /\ resp.doc[i].src = "a.png"
          /\ resp.doc[j].tag = "img" /\ resp.doc[j].src = Absent
    /\ result = Str(<<"<ul>", "<li><img src='a.png' alt='A'></li>", "</ul>">>)

\* C6 as stated: every img with src of the fetched document, also one inside
\* a stripped element, is an item of the list
C6_AsStated ==
    (Called /\ img_only /\ Fetched /\ resp.parseable) =>
        \A i \in SrcImages(resp.doc) : Contains(result.value, ItemOf(resp.doc[i]))

\* C6 (amended): image-list mode collects from the document left after the
\* stripping pass: every img with src outside the stripped elements is an
\* item, inside the body or not, and the imgs inside a stripped element
\* (template, svg) add no item
C6_ImagesAfterStripping ==
    (Called /\ img_only /\ Fetched /\ resp.parseable) =>
        /\ \A i \in KeptSrcImages(resp.doc) : Contains(result.value, ItemOf(resp.doc[i]))
        /\ Len(result.value) = 2 + Cardinality(KeptSrcImages(resp.doc))

C6_Witness ==
    /\ Called /\ img_only /\ Fetched /\ resp.parseable
    /\ \E i \in KeptSrcImages(resp.doc) : resp.doc[i].parent = 0
    /\ SrcImages(resp.doc) \ KeptSrcImages(resp.doc) # {}
    /\ Len(result.value) = 3

\* the call found nothing to return: no body, or a body that renders blank
NoContent ==
    Fetched /\ resp.parseable /\ MarkdownMode
        /\ (~HasBody(resp.doc) \/ LastLog = LogEmpty)

\* C7 as stated: the result of a call without usable content differs from
\* the result of every call whose fetch failed
C7_AsStated ==
    (Called /\ NoContent) =>
        \A f \in FaultResponses : simple_scrape(f, export_html, img_only).result # result

\* C7 (amended): the returned value does not tell the two apart, both are
\* None; only the last log record does (an ERROR for the failed fetch, a
\* WARNING for the missing body or the empty rendering)
C7_SameResultOtherLog ==
    Called =>
        /\ (TransportFault \/ (resp.kind = "http" /\ resp.status \in 400..599))
              => (result = None /\ LastLog = LogErrFetch)
        /\ NoContent
              => (result = None /\ LastLog \in {LogNoBody, LogEmpty})

C7_Witness ==
    /\ Called /\ NoContent /\ resp.doc = <<>> /\ LastLog = LogNoBody
    /\ \A f \in FaultResponses : simple_scrape(f, export_html, img_only).result = result

\* ------------------------------------------------------------------------
\* create_filename_from_url and main (the command line)
\* ------------------------------------------------------------------------
Letters == {"a", "b", "c", "d", "e", "f", "g", "h", "i", "j", "k", "l", "m",
            "n", "o", "p", "q", "r", "s", "t", "u", "v", "w", "x", "y", "z",
            "A", "B", "C", "D", "E", "F", "G", "H", "I", "J", "K", "L", "M",
            "N", "O", "P", "Q", "R", "S", "T", "U", "V", "W", "X", "Y", "Z"}
Digits == {"0", "1", "2", "3", "4", "5", "6", "7", "8", "9"}
\* the characters [a-zA-Z0-9]
IsAlnum(c) == c \in Letters \cup Digits

ChHttp == <<"h", "t", "t", "p", ":", "/", "/">>
ChHttps == <<"h", "t", "t", "p", "s", ":", "/", "/">>
ChWww == <<"w", "w", "w", ".">>
ChImgOnly == <<".", "i", "m", "g", "-", "o", "n", "l", "y">>
ChHtml == <<".", "h", "t", "m", "l">>
ChMd == <<".", "m", "d">>

\* the URLs given on the command line: an optional protocol, an optional
\* www. and up to MaxUrlLen further characters
UrlChars == {"a", "9", ".", "/", "-"}
UrlRests == UNION { [1..n -> UrlChars] : n \in 0..MaxUrlLen }
Urls == { p \o w \o r : p \in {<<>>, ChHttp, ChHttps}, w \in {<<>>, ChWww}, r \in UrlRests }

StartsWith(s, p) == Len(s) >= Len(p) /\ SubSeq(s, 1, Len(p)) = p
EndsWith(s, p) == Len(s) >= Len(p) /\ SubSeq(s, Len(s) - Len(p) + 1, Len(s)) = p
Drop(s, n) == SubSeq(s, n + 1, Len(s))

\* re.sub(r'^https?://(www\.)?', '', url)
StripProtocol(u) ==
    LET n == IF StartsWith(u, ChHttps) THEN Len(ChHttps)
             ELSE IF StartsWith(u, ChHttp) THEN Len(ChHttp) ELSE 0
        v == Drop(u, n)
    IN IF n = 0 THEN u
       ELSE IF StartsWith(v, ChWww) THEN Drop(v, Len(ChWww)) ELSE v

RECURSIVE CollapseRuns(_)
\* re.sub(r'[^a-zA-Z0-9]+', '-', s), one hyphen for a whole run: the
\* substitution with runs collapsed, which line 25 does not do
CollapseRuns(s) ==
    IF s = <<>> THEN <<>>
    ELSE IF IsAlnum(Head(s)) THEN <<Head(s)>> \o CollapseRuns(Tail(s))
    ELSE IF Len(s) >= 2 /\ ~IsAlnum(s[2]) THEN CollapseRuns(Tail(s))
    ELSE <<"-">> \o CollapseRuns(Tail(s))

\* re.sub(r'[^a-zA-Z0-9]', '-', s), one hyphen for each character
Hyphenate(s) == [k \in 1..Len(s) |-> IF IsAlnum(s[k]) THEN s[k] ELSE "-"]

RECURSIVE LStrip(_)
LStrip(s) == IF s # <<>> /\ Head(s) = "-" THEN LStrip(Tail(s)) ELSE s
RECURSIVE RStrip(_)
RStrip(s) == IF s # <<>> /\ s[Len(s)] = "-" THEN RStrip(SubSeq(s, 1, Len(s) - 1)) ELSE s
\* s.strip('-')
StripHyphens(s) == RStrip(LStrip(s))

\* create_filename_from_url(url, is_html, img_only)
create_filename_from_url(u, is_html, io) ==
    StripHyphens(Hyphenate(StripProtocol(u)))
        \o (IF io THEN ChImgOnly ELSE <<>>)
        \o (IF is_html THEN ChHtml ELSE ChMd)

\* the filename main chooses for its flags; the Markdown branch calls
\* create_filename_from_url(args.url) with is_html left at its default True
MainFilename(u, html, io) ==
    IF io THEN create_filename_from_url(u, TRUE, TRUE)
    ELSE IF html THEN create_filename_from_url(u, TRUE, FALSE)
    ELSE create_filename_from_url(u, TRUE, FALSE)

DocText == <<MkNode([tag |-> "body", text |-> "", src |-> Absent, alt |-> Absent], 0),
             MkNode([tag |-> "#text", text |-> "x", src |-> Absent, alt |-> Absent], 1)>>
DocImage == <<MkNode([tag |-> "img", text |-> "", src |-> "a.png", alt |-> "A"], 0)>>
\* the answers of the web to the URL of the command line
CliResponses ==
    [kind : {"fault"}, fault : {"dns"}, status : {0}, parseable : {TRUE}, doc : {<<>>}]
    \cup [kind : {"http"}, fault : {"none"}, status : {200, 404}, parseable : {TRUE},
          doc : {<<>>, DocText, DocImage}]

\* the flags are export_html (--html) and img_only (--img-only)
InitCli ==
    /\ pc = "main"
    /\ url \in Urls
    /\ export_html \in BOOLEAN
    /\ img_only \in BOOLEAN
    /\ resp = NoResponse
    /\ result = None /\ parsed = FALSE /\ raised = FALSE /\ log = <<>>
    /\ filename = <<>> /\ file = NoFile
    /\ IdleSearch

\* main(): scrape in the mode of the flags, derive the filename, write the
\* result when it is truthy
Main ==
    /\ pc = "main"
    /\ \E r \in CliResponses :
          LET o == IF img_only THEN simple_scrape(r, FALSE, TRUE)
                   ELSE IF export_html THEN simple_scrape(r, TRUE, FALSE)
                   ELSE simple_scrape(r, FALSE, FALSE)
              name == MainFilename(url, export_html, img_only)
              truthy == ~o.result.isNone /\ o.result.value # <<>>
          IN /\ resp' = r
             /\ result' = o.result
             /\ parsed' = o.parsed
             /\ raised' = o.raised
             /\ filename' = name
             /\ file' = IF truthy
                        THEN [written |-> TRUE, name |-> name, content |-> o.result.value]
                        ELSE file
             /\ log' = o.log \o (IF truthy THEN <<"INFO Content written">>
                                 ELSE <<"ERROR Failed to process the content properly.">>)
    /\ pc' = "exit"
    /\ UNCHANGED <<url, export_html, img_only,
                   save_as, return_results, search_results, fetched,
                   idx, results, returned>>

NextCli == Main

SpecCli == InitCli /\ [][NextCli]_vars

\* ------------------------------------------------------------------------
\* Properties of the filename (checked under SpecCli)
\* ------------------------------------------------------------------------
Exited == pc = "exit"
FileSuffixes == {ChHtml, ChMd, ChImgOnly \o ChHtml, ChImgOnly \o ChMd}
\* the filename is the stem followed by a mode suffix
HasStem(name, stem) == \E x \in FileSuffixes : name = stem \o x
NoAdjacentHyphens(s) == \A k \in 1..(Len(s) - 1) : ~(s[k] = "-" /\ s[k + 1] = "-")
OnlyAlnumAndHyphen(s) == \A k \in 1..Len(s) : IsAlnum(s[k]) \/ s[k] = "-"
\* the URL without a leading protocol and without a leading www.
WithoutProtocolAndWww(u) ==
    LET v == IF StartsWith(u, ChHttps) THEN Drop(u, 8)
             ELSE IF StartsWith(u, ChHttp) THEN Drop(u, 7) ELSE u
    IN IF StartsWith(v, ChWww) THEN Drop(v, 4) ELSE v
\* t is s without its leading and trailing hyphens
IsTrimOf(t, s) ==
    \E lo \in 1..(Len(s) + 1) : \E hi \in 0..Len(s) :
        /\ t = SubSeq(s, lo, hi)
        /\ \A k \in 1..Len(s) : (k < lo \/ k > hi) => s[k] = "-"
        /\ t # <<>> => (t[1] # "-" /\ t[Len(t)] # "-")

\* C8 as stated: the stem is the URL without protocol and www., each run of
\* non-alphanumerics collapsed to one hyphen, trimmed; so no two hyphens are
\* adjacent
C8_AsStated ==
    Exited => \E stem \in {StripHyphens(CollapseRuns(WithoutProtocolAndWww(url)))} :
                 /\ HasStem(filename, stem)
                 /\ OnlyAlnumAndHyphen(stem)
                 /\ NoAdjacentHyphens(stem)

\* C8 (amended): the stem is the URL without a leading http:// or https://
\* and without a www. that directly follows that protocol, every single
\* non-alphanumeric character replaced by one hyphen, leading and trailing
\* hyphens trimmed; it holds ASCII letters, digits and hyphens only, and a
\* run of n non-alphanumerics inside it is n adjacent hyphens
C8_StemPerCharacter ==
    Exited =>
        \E hasProto \in BOOLEAN :
            LET v == IF StartsWith(url, ChHttps) THEN Drop(url, 8)
                     ELSE IF StartsWith(url, ChHttp) THEN Drop(url, 7) ELSE url
                body == IF hasProto /\ StartsWith(v, ChWww) THEN Drop(v, 4) ELSE v
                mapped == [k \in 1..Len(body) |-> IF IsAlnum(body[k]) THEN body[k] ELSE "-"]
            IN /\ hasProto = (v # url)
               /\ \E lo \in 1..(Len(mapped) + 1) : \E hi \in 0..Len(mapped) :
                     /\ HasStem(filename, SubSeq(mapped, lo, hi))
                     /\ IsTrimOf(SubSeq(mapped, lo, hi), mapped)
                     /\ OnlyAlnumAndHyphen(SubSeq(mapped, lo, hi))

C8_Witness ==
    /\ Exited
    /\ url = ChHttp \o ChWww \o <<"a", "/", "/", "9">>
    /\ filename = <<"a", "-", "-", "9">> \o ChHtml

\* the filename main derives for the same URL under other flags
OtherModeNames ==
    { MainFilename(url, h, i) :
        <<h, i>> \in { <<h2, i2>> \in BOOLEAN \X BOOLEAN :
                          (i2 # img_only) \/ (~i2 /\ ~img_only /\ h2 # export_html) } }

\* C9: the extension follows the export mode: the three modes give three
\* different filenames for one URL, Markdown (no flag) ending in .md and HTML
\* export ending in .html
C9_ExtensionPerMode ==
    Exited =>
        /\ (~img_only /\ ~export_html) => EndsWith(filename, ChMd)
        /\ (~img_only /\ export_html) => EndsWith(filename, ChHtml)
        /\ filename \notin OtherModeNames

\* ------------------------------------------------------------------------
\* process_search_results (search.py)
\* ------------------------------------------------------------------------
\* the urls of the search results
ResultUrls == {<<"u", "1">>, <<"u", "2">>}
\* a search result: a JSON object with at least a url
SearchResults == [url : ResultUrls]
ResultLists == UNION { [1..n -> SearchResults] : n \in 0..MaxResults }

\* the answers of the web to the URL of a search result
SearchResponses ==
    [kind : {"fault"}, fault : {"timeout"}, status : {0}, parseable : {TRUE}, doc : {<<>>}]
    \cup RejectedResponses
    \cup [kind : {"http"}, fault : {"none"}, status : {200, 404}, parseable : {TRUE},
          doc : {<<>>, DocText}]

InitSearch ==
    /\ pc = "search"
    /\ save_as \in BOOLEAN
    /\ return_results \in BOOLEAN
    /\ search_results = <<>> /\ fetched = <<>> /\ idx = 0 /\ results = <<>>
    /\ returned = NoReturn
    /\ export_html = FALSE /\ img_only = FALSE
    /\ resp = NoResponse
    /\ result = None /\ parsed = FALSE /\ raised = FALSE /\ log = <<>>
    /\ IdleCli

\* search_searx returns the JSON of the search endpoint
SearchSearxOk ==
    /\ pc = "search"
    /\ \E rs \in ResultLists : search_results' = rs
    /\ pc' = "zip"
    /\ log' = <<"INFO Search completed successfully.">>
    /\ UNCHANGED <<url, export_html, img_only, resp, result, parsed, raised,
                   filename, file, save_as, return_results, fetched, idx,
                   results, returned>>

\* search_searx raises (request failed); process_search_results logs and re-raises
SearchSearxRaises ==
    /\ pc = "search"
    /\ pc' = "raised"
    /\ log' = <<"ERROR An error occurred during the search request",
                       "ERROR An error occurred while processing search results">>
    /\ UNCHANGED <<url, export_html, img_only, resp, result, parsed, raised,
                   filename, file, save_as, return_results, search_results,
                   fetched, idx, results, returned>>

\* mutant: a result whose scrape gave None is left out
ZipStep_SkipFailed(rs, i, acc, r) ==
    LET o == simple_scrape(r, FALSE, FALSE) IN
    [results |-> IF o.result = None THEN acc ELSE Append(acc, <<rs[i + 1], o.result>>),
     idx |-> i + 1, out |-> o]

\* one round of list(zip(search_results["results"], result_texts)): zip takes
\* the next result, the generators take its url and call simple_scrape(url)
ZipStep(rs, i, acc, r) ==
    LET o == simple_scrape(r, FALSE, FALSE) IN
    [results |-> Append(acc, <<rs[i + 1], o.result>>), idx |-> i + 1, out |-> o]

ScrapeNext ==
    /\ pc = "zip"
    /\ idx < Len(search_results)
    /\ \E r \in SearchResponses :
          LET z == ZipStep(search_results, idx, results, r) IN
          /\ resp' = r
          /\ fetched' = Append(fetched, search_results[idx + 1].url)
          /\ results' = z.results
          /\ idx' = z.idx
          /\ result' = z.out.result
          /\ parsed' = z.out.parsed
          /\ raised' = z.out.raised
          /\ log' = z.out.log
          /\ pc' = IF z.out.raised THEN "raised" ELSE "zip"
    /\ UNCHANGED <<url, export_html, img_only, filename, file, save_as,
                   return_results, search_results, returned>>

\* zip finds the results exhausted; the list is complete
ZipDone ==
    /\ pc = "zip"
    /\ idx = Len(search_results)
    /\ pc' = IF save_as THEN "save" ELSE "return"
    /\ UNCHANGED <<url, export_html, img_only, resp, result, parsed, raised, log,
                   filename, file, save_as, return_results, search_results,
                   fetched, idx, results, returned>>

\* save_json(results, save_path) writes the file
SaveJsonOk ==
    /\ pc = "save"
    /\ file' = [written |-> TRUE, name |-> <<"save_as">>, content |-> results]
    /\ log' = <<"INFO Data saved successfully.", "INFO Search results saved">>
    /\ pc' = "return"
    /\ UNCHANGED <<url, export_html, img_only, resp, result, parsed, raised,
                   filename, save_as, return_results, search_results, fetched,
                   idx, results, returned>>

\* save_json raises IOError; process_search_results logs and re-raises
SaveJsonRaises ==
    /\ pc = "save"
    /\ log' = <<"ERROR An error occurred while saving the data",
                "ERROR An error occurred while processing search results">>
    /\ pc' = "raised"
    /\ UNCHANGED <<url, export_html, img_only, resp, result, parsed, raised,
                   filename, file, save_as, return_results, search_results,
                   fetched, idx, results, returned>>

\* if return_results: return results (None otherwise)
Return ==
    /\ pc = "return"
    /\ returned' = IF return_results
                   THEN [done |-> TRUE, isNone |-> FALSE, value |-> results]
                   ELSE [done |-> TRUE, isNone |-> TRUE, value |-> <<>>]
    /\ pc' = "done"
    /\ UNCHANGED <<url, export_html, img_only, resp, result, parsed, raised, log,
                   filename, file, save_as, return_results, search_results,
                   fetched, idx, results>>

NextSearch ==
    \/ SearchSearxOk
    \/ SearchSearxRaises
    \/ ScrapeNext
    \/ ZipDone
    \/ SaveJsonOk
    \/ SaveJsonRaises
    \/ Return

SpecSearch == InitSearch /\ [][NextSearch]_vars

\* ------------------------------------------------------------------------
\* Properties of process_search_results (checked under SpecSearch)
\* ------------------------------------------------------------------------
\* the scraping is over: the list is built
AllScraped == pc \in {"save", "return", "done"} \/ file.written

\* C10: after a successful search with n results every url is scraped once,
\* in result order; there are n pairs, pair i being (result i, scrape of its
\* url), with None for a failed fetch or extraction, which never ends the
\* loop; the save comes after the n-th scrape
C10_SerialScrape ==
    /\ Len(fetched) = idx /\ Len(results) = idx /\ idx <= Len(search_results)
    /\ \A k \in 1..Len(results) :
          /\ results[k][1] = search_results[k]
          /\ fetched[k] = search_results[k].url
    /\ (pc = "zip" /\ idx > 0) =>
          /\ results[idx][2] = result
          /\ (resp.kind = "fault" \/ resp.status \in 400..599 \/ ~resp.parseable)
                => result = None
    /\ AllScraped => idx = Len(search_results)
    /\ file.written => file.content = results
    /\ pc = "raised" => (idx = 0 \/ (save_as /\ idx = Len(search_results)))
    /\ (pc = "raised" /\ idx = 0 /\ ~save_as) => search_results = <<>>
    /\ (returned.done /\ ~returned.isNone) => returned.value = results

C10_Witness ==
    /\ pc = "done" /\ file.written /\ Len(results) = 3
    /\ results[1][2] = None /\ results[2][2] # None /\ results[3][2] = None
    /\ fetched = <<search_results[1].url, search_results[2].url, search_results[3].url>>
    /\ search_results[1].url = search_results[3].url

====
